---- MODULE Spec2Model ----
(***************************************************************************)
(* State-machine model of the OpenRouter image example: core.py (request   *)
(* builder, API client, response persister, CLI main) and ui.py            *)
(* (run_request).                                                          *)
(*                                                                         *)
(* Strings that the code takes apart (data URLs, file names, path fields)  *)
(* are sequences of tokens; a token is a string that the code never        *)
(* splits.  The characters the code searches for ('.', '"', ' ' and the    *)
(* marker ";base64,") are always tokens of their own.                      *)
(***************************************************************************)
EXTENDS Integers, Sequences, FiniteSets, TLC

\* ------------------------------------------------------------------ bounds
MaxPaths == 2      \* longest image_paths list of prompt_info.yaml / a direct call
MaxImages == 2     \* most images in choices[0].message.images
MaxTicks == 2      \* seconds the wall clock may advance
MaxCalls == 2      \* invocations of save_response_images with the same arguments
ClockStart == 86398   \* seconds since 2025-01-01 00:00:00 local time at start

\* ------------------------------------------------------- program constants
HTTP_OK == 200              \* core.py:186, ui.py:43
NumPathInputs == 3          \* ui.py:128: three "Image Path" text boxes
ConnectTimeout == 10        \* core.py:69
ReadTimeout == 300          \* core.py:69
SecondsPerDay == 86400      \* strftime("%Y-%m-%d") changes every 86400 s

\* ------------------------------------------------------------------- codec
Range(s) == {s[i] : i \in 1..Len(s)}

B64Alphabet ==
  << "A","B","C","D","E","F","G","H","I","J","K","L","M","N","O","P",
     "Q","R","S","T","U","V","W","X","Y","Z","a","b","c","d","e","f",
     "g","h","i","j","k","l","m","n","o","p","q","r","s","t","u","v",
     "w","x","y","z","0","1","2","3","4","5","6","7","8","9","+","/" >>

B64Pad == "="

B64Char(n) == B64Alphabet[n + 1]

B64Index(c) == CHOOSE n \in 0..63 : B64Alphabet[n + 1] = c

\* base64.b64encode(bytes): three bytes become four characters, the tail is padded
RECURSIVE b64encode(_)
b64encode(b) ==
  IF Len(b) = 0 THEN << >>
  ELSE IF Len(b) = 1 THEN
    << B64Char(b[1] \div 4), B64Char((b[1] % 4) * 16), B64Pad, B64Pad >>
  ELSE IF Len(b) = 2 THEN
    << B64Char(b[1] \div 4), B64Char((b[1] % 4) * 16 + b[2] \div 16),
       B64Char((b[2] % 16) * 4), B64Pad >>
  ELSE
    << B64Char(b[1] \div 4), B64Char((b[1] % 4) * 16 + b[2] \div 16),
       B64Char((b[2] % 16) * 4 + b[3] \div 64), B64Char(b[3] % 64) >>
    \o b64encode(SubSeq(b, 4, Len(b)))

SelectChars(s, S) == SelectSeq(s, LAMBDA c : c \in S)

\* the sextets of the alphabet characters of s; b64decode (validate=False)
\* skips every character outside the alphabet
B64Data(s) == SelectChars(s, Range(B64Alphabet))

B64Pads(s) == Len(SelectChars(s, {B64Pad}))

\* binascii.Error: one data character too many, or a tail without its padding
b64decode_ok(s) ==
  LET n == Len(B64Data(s)) % 4
  IN  \/ n = 0
      \/ n = 2 /\ B64Pads(s) >= 2
      \/ n = 3 /\ B64Pads(s) >= 1

RECURSIVE DecodeSextets(_)
DecodeSextets(d) ==
  IF Len(d) < 2 THEN << >>
  ELSE IF Len(d) = 2 THEN
    << B64Index(d[1]) * 4 + B64Index(d[2]) \div 16 >>
  ELSE IF Len(d) = 3 THEN
    << B64Index(d[1]) * 4 + B64Index(d[2]) \div 16,
       (B64Index(d[2]) % 16) * 16 + B64Index(d[3]) \div 4 >>
  ELSE
    << B64Index(d[1]) * 4 + B64Index(d[2]) \div 16,
       (B64Index(d[2]) % 16) * 16 + B64Index(d[3]) \div 4,
       (B64Index(d[3]) % 4) * 64 + B64Index(d[4]) >>
    \o DecodeSextets(SubSeq(d, 5, Len(d)))

b64decode(s) == DecodeSextets(B64Data(s))

Base64Marker == ";base64,"

\* core.py:29-33: the text after the first ";base64,", or the whole text
base64_url_to_base64_image(base64_url) ==
  IF Base64Marker \in Range(base64_url)
  THEN LET i == CHOOSE j \in 1..Len(base64_url) :
                  /\ base64_url[j] = Base64Marker
                  /\ \A h \in 1..(j - 1) : base64_url[h] # Base64Marker
       IN  SubSeq(base64_url, i + 1, Len(base64_url))
  ELSE base64_url

\* PIL.Image.open: the format is read from the first bytes of the data
\* ("" stands for UnidentifiedImageError)
ImageFormat(bytes) ==
  IF Len(bytes) >= 3 /\ SubSeq(bytes, 1, 3) = << 137, 80, 78 >> THEN "PNG"
  ELSE IF Len(bytes) >= 3 /\ SubSeq(bytes, 1, 3) = << 255, 216, 255 >> THEN "JPEG"
  ELSE ""

ToLower(fmt) == IF fmt = "PNG" THEN "png" ELSE IF fmt = "JPEG" THEN "jpeg" ELSE fmt

\* core.py:45-47
FormatExtension(fmt) ==
  LET e == IF fmt # "" THEN ToLower(fmt) ELSE "png"
  IN  IF e = "jpeg" THEN "jpg" ELSE e

\* pathlib.PurePath.suffix: the text from the last '.', unless that dot is the
\* first or the last character of the name
LastDot(name) ==
  LET S == {i \in 1..Len(name) : name[i] = "."}
  IN  IF S = {} THEN 0 ELSE CHOOSE i \in S : \A j \in S : j <= i

Suffix(name) ==
  LET i == LastDot(name)
  IN  IF 1 < i /\ i < Len(name) THEN SubSeq(name, i, Len(name)) ELSE << >>

\* pathlib.PurePath.with_suffix (core.py:48): the old suffix, if any, is replaced
with_suffix(name, suffix) ==
  IF Suffix(name) = << >> THEN name \o suffix
  ELSE SubSeq(name, 1, Len(name) - Len(Suffix(name))) \o suffix

\* ------------------------------------------------------------- file system
Quote == "\""
Space == " "
LongName == "aaaaaaaaaaaaaaaaaaaaaaaaaaaaaaaaaaaaaaaaaaaaaaaaaaaaaaaaaaaaaaaa(x300)"

JpegBytes == << 255, 216, 255, 224 >>
PngBytes == << 137, 80, 78 >>
TextBytes == << 104, 105 >>

\* the input side of the file system: two image files and a directory; every
\* other name is absent.  The empty path is the current directory.
RegularFiles == { << "a.jpg" >>, << "b.png" >> }
Directories == { << "dir" >>, << >> }

FileBytes(path) == IF path = << "a.jpg" >> THEN JpegBytes ELSE PngBytes

\* pathlib.Path.exists (ui.py:30): stat() failing with ENOENT, ENOTDIR, EBADF or
\* ELOOP is False; any other OSError (a name longer than NAME_MAX: ENAMETOOLONG)
\* is raised to the caller
PathExists(path) ==
  IF path \in RegularFiles \cup Directories THEN "yes"
  ELSE IF LongName \in Range(path) THEN "OSError"
  ELSE "no"

\* str.strip('"') (core.py:182, ui.py:23) and str.strip() (ui.py:21, 33, 36)
RECURSIVE LStrip(_, _)
LStrip(s, c) == IF Len(s) > 0 /\ s[1] = c THEN LStrip(Tail(s), c) ELSE s

RECURSIVE RStrip(_, _)
RStrip(s, c) ==
  IF Len(s) > 0 /\ s[Len(s)] = c THEN RStrip(SubSeq(s, 1, Len(s) - 1), c) ELSE s

Strip(s, c) == RStrip(LStrip(s, c), c)

EncodeSkippingUnreadable(path) ==
  [ok |-> TRUE, exc |-> "",
   b64 |-> IF path = << "a.jpg" >> THEN b64encode(<< 255, 216, 255, 224 >>)
           ELSE IF path = << "b.png" >> THEN b64encode(<< 137, 80, 78 >>)
           ELSE << >>]

\* core.py:16-18: open(image_path, "rb").read(), base64-encoded
encode_image_to_base64(path) ==
  IF path \in RegularFiles
  THEN [ok |-> TRUE, exc |-> "", b64 |-> b64encode(FileBytes(path))]
  ELSE IF path = << >> \/ PathExists(path) = "no"
  THEN [ok |-> FALSE, exc |-> "FileNotFoundError", b64 |-> << >>]
  ELSE IF path \in Directories
  THEN [ok |-> FALSE, exc |-> "IsADirectoryError", b64 |-> << >>]
  ELSE [ok |-> FALSE, exc |-> "OSError", b64 |-> << >>]

\* ---------------------------------------------------------- request builder
\* core.py:129
TextContent(prompt_text) == [type |-> "text", text |-> prompt_text, url |-> << >>]

\* core.py:132-137: the MIME label is always image/jpeg
ImageContent(b64) ==
  [type |-> "image_url", text |-> << >>,
   url |-> << "data:image/jpeg", Base64Marker >> \o b64]

MessagesTextLast(prompt_text, image_contents) ==
  << [role |-> "user", content |-> image_contents \o << TextContent(prompt_text) >>] >>

\* core.py:141-148
Messages(prompt_text, image_contents) ==
  << [role |-> "user", content |-> << TextContent(prompt_text) >> \o image_contents] >>

EnvApiKey == << "sk-env" >>

\* core.py:55-66: the POST that image_generation_request sends
Payload(messages, model, openrouter_api_key) ==
  [url |-> "https://openrouter.ai/api/v1/chat/completions",
   authorization |-> << "Bearer", Space >>
       \o (IF openrouter_api_key # << >> THEN openrouter_api_key ELSE EnvApiKey),
   model |-> model,
   messages |-> messages,
   modalities |-> << "image", "text" >>,
   timeout |-> << ConnectTimeout, ReadTimeout >>]

GeminiModel == "google/gemini-3-pro-image-preview"

\* ------------------------------------------------------------ API responses
SeqsUpTo(S, n) == UNION { [1..m -> S] : m \in 0..n }

PngUrl == << "data:image/png", Base64Marker >> \o b64encode(PngBytes)
JpegBare == b64encode(JpegBytes)
TextUrl == << "data:image/png", Base64Marker >> \o b64encode(TextBytes)
BadPaddingUrl == << "data:image/png", Base64Marker, "i", "V", "B" >>

ImageUrls == { PngUrl, JpegBare, TextUrl, BadPaddingUrl }

ResponseIds == { << "gen-1" >>, << "gen", ".", "1" >> }

Choice(urls) ==
  [images |-> urls, content |-> "ok", native_finish_reason |-> "IMAGE_SAFETY"]

\* the parsed response JSON: "id" and "choices" may be absent
ResponseDatas ==
  { [hasId |-> TRUE, id |-> i, hasChoices |-> TRUE, choices |-> << Choice(u) >>] :
      i \in ResponseIds, u \in SeqsUpTo(ImageUrls, MaxImages) }
  \cup { [hasId |-> FALSE, id |-> << >>, hasChoices |-> TRUE, choices |-> << Choice(u) >>] :
      u \in SeqsUpTo(ImageUrls, MaxImages) }
  \cup { [hasId |-> TRUE, id |-> << "gen-1" >>, hasChoices |-> h, choices |-> << >>] :
      h \in BOOLEAN }

ErrorData == [hasId |-> FALSE, id |-> << >>, hasChoices |-> FALSE, choices |-> << >>]

Responses ==
  { [status |-> HTTP_OK, text |-> "json", isJson |-> TRUE, data |-> d] :
      d \in ResponseDatas }
  \cup { [status |-> s, text |-> "rate limited", isJson |-> FALSE, data |-> ErrorData] :
      s \in { HTTP_OK, 404, 500 } }
  \cup { [status |-> 404, text |-> "json", isJson |-> TRUE,
          data |-> [hasId |-> TRUE, id |-> << "gen-1" >>, hasChoices |-> TRUE,
                    choices |-> << Choice(<< PngUrl >>) >>]] }

TransportErrors == { "Timeout", "ConnectionError" }

StatusNotOkOnly5xx(status) == status >= 500

\* core.py:186, ui.py:43
StatusNotOk(status) == status # HTTP_OK

\* ------------------------------------------------------- output file names
Pad2(n) == IF n < 10 THEN "0" \o ToString(n) ELSE ToString(n)

\* the model's clock counts seconds of January 2025
DayOfMonth(t) == 1 + t \div SecondsPerDay

\* core.py:89: now.strftime("%Y-%m-%d")
DateStr(t) == "2025-01-" \o Pad2(DayOfMonth(t))

TimeStampNoSeconds(t) ==
  "202501" \o Pad2(DayOfMonth(t)) \o Pad2((t % SecondsPerDay) \div 3600)
           \o Pad2((t % 3600) \div 60)

\* core.py:90: now.strftime("%Y%m%d%H%M%S")
TimeStamp(t) ==
  "202501" \o Pad2(DayOfMonth(t)) \o Pad2((t % SecondsPerDay) \div 3600)
           \o Pad2((t % 3600) \div 60) \o Pad2(t % 60)

OutputBase == "out"

\* core.py:92: response_data.get("id", "unknown_id")
ResponseId(data) == IF data.hasId THEN data.id ELSE << "unknown_id" >>

\* core.py:85-86: response_data.get("choices", [])
Choices(data) == IF data.hasChoices THEN data.choices ELSE << >>

\* core.py:94-96
TodayFolder(base, t) == << base, DateStr(t) >>

\* the f"{yyyymmddhhmmss}_{id}" that starts every file name (core.py:97, 106, 112)
NamePrefix(t, data) == << TimeStamp(t), "_" >> \o ResponseId(data)

JsonPath(base, t, data) ==
  [dir |-> TodayFolder(base, t), name |-> NamePrefix(t, data) \o << "_response.json" >>]

\* core.py:106: the extension-less path handed to save_base64_url_to_file
ImageBasePath(base, t, data, idx) ==
  [dir |-> TodayFolder(base, t), name |-> NamePrefix(t, data) \o << "_", ToString(idx) >>]

YamlPath(base, t, data) ==
  [dir |-> TodayFolder(base, t), name |-> NamePrefix(t, data) \o << "_prompt_info.yaml" >>]

\* core.py:36-52 up to the write: the exception raised, or the path and format
save_base64_url_to_file(base64_url, output_path) ==
  LET base64_image == base64_url_to_base64_image(base64_url)
      image_data == b64decode(base64_image)
      fmt == ImageFormat(image_data)
  IN  IF ~b64decode_ok(base64_image)
      THEN [exc |-> "binascii.Error", path |-> output_path, fmt |-> ""]
      ELSE IF fmt = ""
      THEN [exc |-> "UnidentifiedImageError", path |-> output_path, fmt |-> ""]
      ELSE [exc |-> "",
            path |-> [dir |-> output_path.dir,
                      name |-> with_suffix(output_path.name,
                                           << ".", FormatExtension(fmt) >>)],
            fmt |-> fmt]

WriteFile(d, path, content) ==
  [p \in DOMAIN d \cup {path} |-> IF p = path THEN content ELSE d[p]]

EmptyDisk == [p \in {} |-> 0]

ImageStepWithCleanup(d, res, io_ok, content, saved_image_paths) ==
  IF res.exc = "" /\ io_ok THEN WriteFile(d, res.path, content)
  ELSE [p \in DOMAIN d \ Range(saved_image_paths) |-> d[p]]

\* core.py:104-109 with core.py:51: the disk after one turn of the loop.  An
\* exception leaves the loop with nothing removed; a failed image.save (the
\* file cannot be opened for writing) writes nothing.
ImageStepDisk(d, res, io_ok, content, saved_image_paths) ==
  IF res.exc = "" /\ io_ok THEN WriteFile(d, res.path, content) ELSE d

\* ------------------------------------------------------------------- state
VARIABLES
  clock,           \* the wall clock, in seconds
  disk,            \* output files: path -> what was written last
  dirs,            \* output directories that exist
  written,         \* per invocation: the paths it wrote
  nowAt,           \* per invocation: the clock value read at core.py:88
  pc,              \* position of the running program
  entry,           \* "main", "ui" or "persist" (a direct save_response_images call)
  calls,           \* invocations started
  prompt_info,     \* the prompt record: text and image_paths
  image_paths,     \* the image_paths handed to unified_image_preview_request
  prompt_text,     \* the prompt_text handed to unified_image_preview_request
  api_key,
  image_contents,  \* core.py:131: the image parts built so far
  sent,            \* the HTTP POSTs made
  response,        \* the HTTP response
  response_data,   \* the parsed response JSON given to save_response_images
  images,          \* core.py:85
  now,             \* core.py:88
  saved_image_paths,
  outcome,         \* how the run ended
  report,          \* what the caller printed or put in its message
  invoked          \* the call of save_response_images was made (core.py:192, ui.py:47)

vars == << clock, disk, dirs, written, nowAt, pc, entry, calls, prompt_info,
           image_paths, prompt_text, api_key, image_contents, sent, response, response_data,
           images, now, saved_image_paths, outcome, report, invoked >>

NoOutcome == [kind |-> "none", exc |-> "", msg |-> "", gallery |-> -1, at |-> ""]
NoReport == [status |-> 0, text |-> "", reason |-> ""]
NoResponse == [status |-> 0, text |-> "", isJson |-> FALSE, data |-> ErrorData]

Init ==
  /\ clock = ClockStart
  /\ disk = EmptyDisk
  /\ dirs = {}
  /\ written = [c \in 1..MaxCalls |-> {}]
  /\ nowAt = [c \in 1..MaxCalls |-> 0]
  /\ pc = "idle"
  /\ entry = "none"
  /\ calls = 0
  /\ prompt_info = [text |-> << >>, image_paths |-> << >>]
  /\ image_paths = << >>
  /\ prompt_text = << >>
  /\ api_key = << >>
  /\ image_contents = << >>
  /\ sent = << >>
  /\ response = NoResponse
  /\ response_data = ErrorData
  /\ images = << >>
  /\ now = 0
  /\ saved_image_paths = << >>
  /\ outcome = NoOutcome
  /\ report = NoReport
  /\ invoked = FALSE

\* an exception: run_request's try block (ui.py:39, 87-88) turns it into a
\* message; main and a direct caller let it propagate
Failed(who, exc, at) ==
  IF who = "ui"
  THEN [kind |-> "return", exc |-> exc, msg |-> "exception", gallery |-> -1, at |-> at]
  ELSE [kind |-> "raise", exc |-> exc, msg |-> "", gallery |-> -1, at |-> at]

Returned(msg, at) ==
  [kind |-> "return", exc |-> "", msg |-> msg, gallery |-> -1, at |-> at]

\* ------------------------------------------------------------------ inputs
MainTexts == { << >>, << "a red circle" >> }

MainPathStrs ==
  { << "a.jpg" >>, << Quote, "b.png", Quote >>, << "missing.png" >>, << "dir" >> }

UIPathStrs ==
  { << >>, << Space >>, << "a.jpg" >>, << Quote, "b.png", Quote >>,
    << "missing.png" >>, << "dir" >>, << Quote, Quote >>, << LongName >> }

UIPrompts == { << >>, << Space >>, << "a red circle" >> }

UIKeys == { << >>, << "sk-ui" >> }

RECURSIVE StripQuotes(_)
StripQuotes(paths) ==
  IF paths = << >> THEN << >>
  ELSE << Strip(Head(paths), Quote) >> \o StripQuotes(Tail(paths))

\* ------------------------------------------------------- ui.py: run_request
\* ui.py:21, 33, 36: not s or s.strip() == ""
Blank(s) == s = << >> \/ Strip(s, Space) = << >>

\* ui.py:21-23
ValidImagePaths(fields) ==
  StripQuotes(SelectSeq(fields, LAMBDA p : ~Blank(p)))

\* ui.py:29-31: the first listed path whose exists() is not True (0: none)
FirstNotExisting(paths) ==
  LET B == {i \in 1..Len(paths) : PathExists(paths[i]) # "yes"}
  IN  IF B = {} THEN 0 ELSE CHOOSE i \in B : \A j \in B : i <= j

\* ui.py:25-37: the checks made before the try block, in the code's order.
\* NoOutcome: every check passed.
Validate(fields, prompt, key) ==
  LET valid_image_paths == ValidImagePaths(fields)
      bad == FirstNotExisting(valid_image_paths)
  IN  IF valid_image_paths = << >> THEN Returned("no_image_path", "validate")
      ELSE IF bad # 0 /\ PathExists(valid_image_paths[bad]) = "no"
      THEN Returned("path_missing", "validate")
      ELSE IF bad # 0
      THEN [kind |-> "raise", exc |-> PathExists(valid_image_paths[bad]),
            msg |-> "", gallery |-> -1, at |-> "validate"]
      ELSE IF Blank(prompt) THEN Returned("no_prompt", "validate")
      ELSE IF Blank(key) THEN Returned("no_api_key", "validate")
      ELSE NoOutcome

\* ---------------------------------------------------------------- actions
\* core.py:169-184: main reads prompt_info.yaml and strips the quotes
StartMain ==
  /\ pc = "idle"
  /\ \E text \in MainTexts, paths \in SeqsUpTo(MainPathStrs, MaxPaths) :
       /\ prompt_info' = [text |-> text, image_paths |-> paths]
       /\ prompt_text' = text
       /\ image_paths' = StripQuotes(paths)
  /\ entry' = "main"
  /\ calls' = 1
  /\ api_key' = EnvApiKey
  /\ pc' = "encode"
  /\ UNCHANGED << clock, disk, dirs, written, nowAt, image_contents, sent, response,
                  response_data, images, now, saved_image_paths, outcome, report,
                  invoked >>

\* ui.py:18-41: run_request up to the call of the request builder
StartUI ==
  /\ pc = "idle"
  /\ \E fields \in [1..NumPathInputs -> UIPathStrs], prompt \in UIPrompts,
        key \in UIKeys :
       LET v == Validate(fields, prompt, key)
       IN  /\ prompt_info' = [text |-> prompt, image_paths |-> ValidImagePaths(fields)]
           /\ prompt_text' = prompt
           /\ image_paths' = ValidImagePaths(fields)
           /\ api_key' = key
           /\ outcome' = v
           /\ pc' = IF v = NoOutcome THEN "encode" ELSE "done"
  /\ entry' = "ui"
  /\ calls' = 1
  /\ UNCHANGED << clock, disk, dirs, written, nowAt, image_contents, sent, response,
                  response_data, images, now, saved_image_paths, report, invoked >>

\* core.py:131-139: one turn of the comprehension that reads and encodes the
\* input images, in list order; after the last one the builder goes on to
\* core.py:141-150
Encode ==
  /\ pc = "encode"
  /\ LET n == Len(image_contents)
     IN  IF n < Len(image_paths)
         THEN LET r == encode_image_to_base64(image_paths[n + 1])
              IN  IF r.ok
                  THEN /\ image_contents' = Append(image_contents, ImageContent(r.b64))
                       /\ pc' = "encode"
                       /\ outcome' = outcome
                  ELSE /\ image_contents' = image_contents
                       /\ pc' = "done"
                       /\ outcome' = Failed(entry, r.exc, "encode")
         ELSE /\ pc' = "post"
              /\ UNCHANGED << image_contents, outcome >>
  /\ UNCHANGED << clock, disk, dirs, written, nowAt, entry, calls, prompt_info,
                  image_paths, prompt_text, api_key, sent, response, response_data,
                  images, now, saved_image_paths, report, invoked >>

\* core.py:141-151 and 55-70: the single POST; the service answers, or
\* requests.post raises
Post ==
  /\ pc = "post"
  /\ sent' = Append(sent, Payload(Messages(prompt_text, image_contents),
                                  GeminiModel, api_key))
  /\ \/ \E r \in Responses :
          /\ response' = r
          /\ pc' = "check"
          /\ outcome' = outcome
     \/ \E e \in TransportErrors :
          /\ response' = response
          /\ pc' = "done"
          /\ outcome' = Failed(entry, e, "post")
  /\ UNCHANGED << clock, disk, dirs, written, nowAt, entry, calls, prompt_info,
                  image_paths, prompt_text, api_key, image_contents, response_data,
                  images, now, saved_image_paths, report, invoked >>

\* core.py:186-192 (main) and ui.py:43-47 (run_request).  run_request calls
\* save_response_images with two arguments where three are required: the call
\* raises TypeError and ui.py:49-85 never run.
Check ==
  /\ pc = "check"
  /\ IF StatusNotOk(response.status)
     THEN /\ report' = [status |-> response.status, text |-> response.text,
                        reason |-> ""]
          /\ outcome' = Returned(IF entry = "ui" THEN "http_error" ELSE "", "check")
          /\ pc' = "done"
          /\ UNCHANGED << response_data, invoked >>
     ELSE IF entry = "ui"
     THEN /\ invoked' = TRUE
          /\ outcome' = Failed(entry, "TypeError", "check")
          /\ pc' = "done"
          /\ UNCHANGED << response_data, report >>
     ELSE IF response.isJson
     THEN /\ response_data' = response.data
          /\ invoked' = TRUE
          /\ pc' = "persist"
          /\ UNCHANGED << outcome, report >>
     ELSE /\ outcome' = Failed(entry, "JSONDecodeError", "check")
          /\ pc' = "done"
          /\ UNCHANGED << response_data, invoked, report >>
  /\ UNCHANGED << clock, disk, dirs, written, nowAt, entry, calls, prompt_info,
                  image_paths, prompt_text, api_key, image_contents, sent, response,
                  images, now, saved_image_paths >>

\* core.py:72: a caller hands a parsed response and a prompt record to
\* save_response_images
StartPersist ==
  /\ pc = "idle"
  /\ \E d \in ResponseDatas : response_data' = d
  /\ prompt_info' = [text |-> << "a red circle" >>, image_paths |-> << >>]
  /\ entry' = "persist"
  /\ calls' = 1
  /\ invoked' = TRUE
  /\ pc' = "persist"
  /\ UNCHANGED << clock, disk, dirs, written, nowAt, image_paths, prompt_text,
                  api_key, image_contents, sent, response, images, now,
                  saved_image_paths, outcome, report >>

\* the same caller calls save_response_images again with the same arguments
CallAgain ==
  /\ pc = "done"
  /\ entry = "persist"
  /\ calls < MaxCalls
  /\ calls' = calls + 1
  /\ pc' = "persist"
  /\ images' = << >>
  /\ now' = 0
  /\ saved_image_paths' = << >>
  /\ outcome' = NoOutcome
  /\ UNCHANGED << clock, disk, dirs, written, nowAt, entry, prompt_info, image_paths,
                  prompt_text, api_key, image_contents, sent, response,
                  response_data, report, invoked >>

\* time passes; the clock is read only at core.py:88
Tick ==
  /\ pc = "persist"
  /\ clock < ClockStart + MaxTicks
  /\ clock' = clock + 1
  /\ UNCHANGED << disk, dirs, written, nowAt, pc, entry, calls, prompt_info,
                  image_paths, prompt_text, api_key, image_contents, sent, response,
                  response_data, images, now, saved_image_paths, outcome, report,
                  invoked >>

\* core.py:85-86: choices[0] of an empty list raises IndexError
PersistEnter ==
  /\ pc = "persist"
  /\ IF Choices(response_data) = << >>
     THEN /\ outcome' = Failed(entry, "IndexError", "persist")
          /\ pc' = "done"
          /\ images' = images
     ELSE /\ images' = Choices(response_data)[1].images
          /\ pc' = "p_json"
          /\ outcome' = outcome
  /\ UNCHANGED << clock, disk, dirs, written, nowAt, entry, calls, prompt_info,
                  image_paths, prompt_text, api_key, image_contents, sent, response,
                  response_data, now, saved_image_paths, report, invoked >>

\* core.py:88-101: read the clock, make the day folder, write the response JSON
PersistJson ==
  /\ pc = "p_json"
  /\ now' = clock
  /\ nowAt' = [nowAt EXCEPT ![calls] = clock]
  /\ dirs' = dirs \cup { TodayFolder(OutputBase, clock) }
  /\ \E io_ok \in BOOLEAN :
       LET path == JsonPath(OutputBase, clock, response_data)
       IN  IF io_ok
           THEN /\ disk' = WriteFile(disk, path, [kind |-> "json", call |-> calls,
                                                  idx |-> -1, fmt |-> ""])
                /\ written' = [written EXCEPT ![calls] = @ \cup {path}]
                /\ pc' = "p_img"
                /\ outcome' = outcome
           ELSE /\ outcome' = Failed(entry, "OSError", "json")
                /\ pc' = "done"
                /\ UNCHANGED << disk, written >>
  /\ UNCHANGED << clock, entry, calls, prompt_info, image_paths, prompt_text,
                  api_key, image_contents, sent, response, response_data, images,
                  saved_image_paths, report, invoked >>

\* core.py:103-109: one turn of the loop over the images
PersistImage ==
  /\ pc = "p_img"
  /\ LET idx == Len(saved_image_paths)
     IN  IF idx < Len(images)
         THEN LET res == save_base64_url_to_file(
                           images[idx + 1],
                           ImageBasePath(OutputBase, now, response_data, idx))
                  content == [kind |-> "image", call |-> calls, idx |-> idx,
                              fmt |-> res.fmt]
              IN  \E io_ok \in BOOLEAN :
                    /\ disk' = ImageStepDisk(disk, res, io_ok, content,
                                             saved_image_paths)
                    /\ IF res.exc = "" /\ io_ok
                       THEN /\ saved_image_paths' = Append(saved_image_paths, res.path)
                            /\ written' = [written EXCEPT ![calls] = @ \cup {res.path}]
                            /\ pc' = "p_img"
                            /\ outcome' = outcome
                       ELSE /\ outcome' = Failed(entry,
                                                 IF res.exc # "" THEN res.exc
                                                 ELSE "OSError", "image")
                            /\ pc' = "done"
                            /\ UNCHANGED << saved_image_paths, written >>
         ELSE /\ pc' = "p_yaml"
              /\ UNCHANGED << disk, written, saved_image_paths, outcome >>
  /\ UNCHANGED << clock, dirs, nowAt, entry, calls, prompt_info, image_paths,
                  prompt_text, api_key, image_contents, sent, response,
                  response_data, images, now, report, invoked >>

\* core.py:111-115: write the prompt record and return
PersistYaml ==
  /\ pc = "p_yaml"
  /\ \E io_ok \in BOOLEAN :
       LET path == YamlPath(OutputBase, now, response_data)
       IN  IF io_ok
           THEN /\ disk' = WriteFile(disk, path, [kind |-> "yaml", call |-> calls,
                                                  idx |-> -1, fmt |-> ""])
                /\ written' = [written EXCEPT ![calls] = @ \cup {path}]
                /\ outcome' = Returned("", "yaml")
           ELSE /\ outcome' = Failed(entry, "OSError", "yaml")
                /\ UNCHANGED << disk, written >>
  /\ pc' = "done"
  /\ UNCHANGED << clock, dirs, nowAt, entry, calls, prompt_info, image_paths,
                  prompt_text, api_key, image_contents, sent, response,
                  response_data, images, now, saved_image_paths, report, invoked >>

Next ==
  \/ StartMain
  \/ StartUI
  \/ StartPersist
  \/ CallAgain
  \/ Tick
  \/ Encode
  \/ Post
  \/ Check
  \/ PersistEnter
  \/ PersistJson
  \/ PersistImage
  \/ PersistYaml

Spec == Init /\ [][Next]_vars

\* ------------------------------------------------------------------ claims
IsPrefix(a, b) == Len(a) <= Len(b) /\ SubSeq(b, 1, Len(a)) = a

FilesOfKind(W, kind) == {p \in W : p \in DOMAIN disk /\ disk[p].kind = kind}

PersistReturned == pc = "done" /\ outcome.kind = "return" /\ outcome.at = "yaml"

\* the extension of the image that the i-th ImageRef of the response carries
SniffedExtension(i) ==
  FormatExtension(ImageFormat(b64decode(base64_url_to_base64_image(images[i]))))

\* C1: one call of save_response_images on a response whose first choice has
\* K valid images, whatever the response id, leaves exactly K distinct image
\* files, one response-JSON file and one prompt-info file, all in the returned
\* <base>/<YYYY-MM-DD> directory and all named <timestamp>_<id>...
C1_PersistLeavesKImagesOneJsonOneYaml ==
  PersistReturned =>
    LET W == written[calls]
    IN  /\ Cardinality(FilesOfKind(W, "image")) = Len(images)
        /\ Cardinality(FilesOfKind(W, "json")) = 1
        /\ Cardinality(FilesOfKind(W, "yaml")) = 1
        /\ \A p \in W :
             /\ p \in DOMAIN disk
             /\ p.dir = TodayFolder(OutputBase, now)
             /\ IsPrefix(NamePrefix(now, response_data), p.name)

\* C2: when the HTTP status is not 200 the caller (main, run_request) reports
\* the status code and the body text and stops: save_response_images is not
\* called and no file is written in that run.
C2_NonOkStatusReportedNothingWritten ==
  (response.status # 0 /\ response.status # HTTP_OK) =>
    /\ pc \in {"check", "done"}
    /\ ~invoked
    /\ disk = EmptyDisk
    /\ dirs = {}
    /\ written[1] = {}
    /\ pc = "done" =>
         /\ outcome.kind = "return"
         /\ outcome.at = "check"
         /\ report.status = response.status
         /\ report.text = response.text

C2_Witness ==
  /\ pc = "done"
  /\ entry = "ui"
  /\ response.status = 500
  /\ report.status = 500
  /\ report.text = "rate limited"

\* C3: on an empty (or absent) choices list save_response_images fails with a
\* MalformedResponseError, not an index error, before any directory is made
\* or any file is written.
C3_EmptyChoicesMalformedResponseError ==
  (pc = "done" /\ invoked /\ entry # "ui" /\ Choices(response_data) = << >>) =>
    /\ outcome.kind = "raise"
    /\ outcome.exc = "MalformedResponseError"
    /\ written[calls] = {}

\* the base64 text of the two input files, as Python's base64.b64encode gives it
ExpectedBase64(path) ==
  IF path = << "a.jpg" >> THEN << "/", "9", "j", "/", "4", "A", "=", "=" >>
  ELSE << "i", "V", "B", "O" >>

\* C4: the request has exactly one user message whose content is one text part
\* holding the prompt text followed by one image_url part per input path, in
\* input order (duplicates kept), each an image/jpeg data URL of that file.
C4_RequestMirrorsInputs ==
  \A k \in 1..Len(sent) :
    LET m == sent[k].messages
    IN  /\ Len(m) = 1
        /\ m[1].role = "user"
        /\ Len(m[1].content) = 1 + Len(image_paths)
        /\ m[1].content[1].type = "text"
        /\ m[1].content[1].text = prompt_text
        /\ \A i \in 1..Len(image_paths) :
             /\ m[1].content[i + 1].type = "image_url"
             /\ m[1].content[i + 1].url =
                  << "data:image/jpeg", ";base64," >> \o ExpectedBase64(image_paths[i])

C4_Witness ==
  /\ Len(sent) = 1
  /\ image_paths = << << "a.jpg" >>, << "b.png" >> >>
  /\ prompt_text = << >>

\* C5: the HTTP POST is made only after every input image has been read and
\* encoded; an unreadable path at any position means no HTTP request at all.
C5_PostOnlyAfterEveryImageEncoded ==
  /\ sent # << >> =>
       /\ Len(image_contents) = Len(image_paths)
       /\ \A i \in 1..Len(image_paths) : image_paths[i] \in RegularFiles
  /\ (pc = "done" /\ outcome.at = "encode") => sent = << >>
  /\ (\E i \in 1..Len(image_paths) : image_paths[i] \notin RegularFiles)
       => sent = << >>

C5_Witness ==
  /\ pc = "done"
  /\ outcome.at = "encode"
  /\ outcome.exc = "FileNotFoundError"
  /\ Len(image_contents) >= 1
  /\ sent = << >>

\* C6: two calls of save_response_images with the same arguments, the clock
\* at least one second further at the second, write disjoint sets of files;
\* the second call overwrites no file of the first.
C6_LaterCallWritesDisjointFiles ==
  \A c1 \in 1..calls : \A c2 \in 1..calls :
    (c1 < c2 /\ nowAt[c1] # 0 /\ nowAt[c2] >= nowAt[c1] + 1) =>
      /\ written[c1] \cap written[c2] = {}
      /\ \A p \in written[c1] : p \in DOMAIN disk /\ disk[p].call # c2

C6_Witness ==
  /\ pc = "done"
  /\ calls = 2
  /\ outcome.kind = "return"
  /\ nowAt[1] # 0
  /\ nowAt[2] > nowAt[1]
  /\ Cardinality(written[1]) >= 3
  /\ Cardinality(written[2]) >= 3

\* C7: a 200 response with zero images is still persisted (response JSON and
\* prompt-info written) and the upstream native_finish_reason is reported;
\* it is no failure, on the UI path as on the CLI path.
C7_ZeroImagesPersistedAndReasonReported ==
  (/\ pc = "done"
   /\ entry \in {"main", "ui"}
   /\ response.status = HTTP_OK
   /\ response.isJson
   /\ Choices(response.data) # << >>
   /\ Choices(response.data)[1].images = << >>
   /\ outcome.exc # "OSError") =>
     /\ outcome.kind = "return"
     /\ outcome.exc = ""
     /\ FilesOfKind(written[calls], "json") # {}
     /\ FilesOfKind(written[calls], "yaml") # {}
     /\ report.reason = Choices(response.data)[1].native_finish_reason

\* C8: save_base64_url_to_file writes a valid image to, and returns, exactly
\* the base path with '.' and the detected extension appended, whatever the
\* base path's last component contains; distinct base paths give distinct files.
C8_ExtensionAppendedToBasePath ==
  \A i \in 1..Len(saved_image_paths) :
    /\ saved_image_paths[i] \in DOMAIN disk
    /\ saved_image_paths[i].name =
         ImageBasePath(OutputBase, now, response_data, i - 1).name
           \o << ".", SniffedExtension(i) >>
    /\ \A j \in 1..Len(saved_image_paths) :
         i # j => saved_image_paths[i] # saved_image_paths[j]

\* C9: run_request never raises; when the filtered path list is empty, a
\* listed path does not exist, the prompt is blank or the API key is blank it
\* returns an error message with no images, sends no HTTP request and writes
\* no file.
C9_RunRequestReturnsMessageNeverRaises ==
  entry = "ui" =>
    /\ outcome.kind # "raise"
    /\ (\/ image_paths = << >>
        \/ \E i \in 1..Len(image_paths) : PathExists(image_paths[i]) # "yes"
        \/ Blank(prompt_text)
        \/ Blank(api_key)) =>
         /\ pc = "done"
         /\ outcome.kind = "return"
         /\ outcome.msg \in {"no_image_path", "path_missing", "no_prompt",
                             "no_api_key"}
         /\ outcome.gallery = -1
         /\ sent = << >>
         /\ disk = EmptyDisk

\* C10: when saving the image at index j fails, the exception reaches the
\* caller and nothing is rolled back: the response JSON and the image files
\* of the indices below j stay on disk, no image of index j or more and no
\* prompt-info file is written.
C10_ImageFailureLeavesEarlierFiles ==
  (pc = "done" /\ outcome.at = "image") =>
    LET j == Len(saved_image_paths)
        W == written[calls]
        json == JsonPath(OutputBase, now, response_data)
    IN  /\ outcome.kind = "raise"
        /\ j < Len(images)
        /\ W = {json} \cup Range(saved_image_paths)
        /\ \A p \in W : p \in DOMAIN disk /\ disk[p].call = calls
        /\ disk[json].kind = "json"
        /\ \A i \in 1..j :
             /\ disk[saved_image_paths[i]].kind = "image"
             /\ disk[saved_image_paths[i]].idx < j
        /\ \A p \in DOMAIN disk :
             disk[p].call = calls =>
               /\ disk[p].kind # "yaml"
               /\ disk[p].kind = "image" => disk[p].idx < j

C10_Witness ==
  /\ pc = "done"
  /\ outcome.at = "image"
  /\ outcome.exc = "UnidentifiedImageError"
  /\ Len(saved_image_paths) = 1
  /\ Len(images) = 2

====
